---- MODULE Spec2Model ----
(***************************************************************************)
(* Model of the CapMatch front end: the search view (SearchPage), the API  *)
(* client (api.getDemographics), the navigation to the detail view         *)
(* (DemographicsCard.handleViewDetails, App, DemographicsDetail) and the   *)
(* per-component extraction of metrics from a radius record.               *)
(*                                                                         *)
(* JavaScript values are modelled as follows:                              *)
(*   - `null`/`undefined` is None (the empty tuple), a present value v is  *)
(*     Some(v) (a one-element tuple);                                      *)
(*   - the text of the address input is a sequence of one-character        *)
(*     strings, so that trim and encodeURIComponent can be computed;       *)
(*   - other strings (messages) are TLA+ strings.                          *)
(***************************************************************************)
EXTENDS Integers, Sequences, FiniteSets, TLC

----------------------------------------------------------------------------
(* Bounds of the model *)

\* longest text typed in the address input
MaxAddrLen == 2
\* number of form submissions explored
MaxSubmits == 2

----------------------------------------------------------------------------
(* JavaScript values *)

None == <<>>
Some(v) == <<v>>
IsSome(o) == Len(o) = 1

\* the object {} ; an object is a function from its own keys
EmptyObj == [k \in {} |-> 0]

\* the key is an own property of the object
Has(o, k) == k \in DOMAIN o

\* nothing has been rendered yet
NoView == [component |-> "none", out |-> EmptyObj]

\* `useState({population: 0, growthRate: 0, collegeGrad: 0})`; growthRate is
\* kept in tenths
InitialValues == [population |-> 0, growthRate |-> 0, collegeGrad |-> 0]

\* no DemographicsCard is mounted
NoCard ==
    [mounted |-> FALSE, targets |-> InitialValues,
     animatedValues |-> InitialValues, timers |-> {}, effect |-> 0,
     ticks |-> 0, stale |-> FALSE]

\* truthiness of a string-or-null value: null and "" are falsy
TruthyStr(o) == IsSome(o) /\ o[1] # ""

\* the characters the user can type: a letter, a blank and a reserved one
Chars == {"a", " ", "%"}

AddressTexts == UNION {[1..n -> Chars] : n \in 0..MaxAddrLen}

RECURSIVE trimStart(_)
trimStart(s) ==
    IF s = <<>> THEN <<>>
    ELSE IF Head(s) = " " THEN trimStart(Tail(s)) ELSE s

RECURSIVE trimEnd(_)
trimEnd(s) ==
    IF s = <<>> THEN <<>>
    ELSE IF s[Len(s)] = " " THEN trimEnd(SubSeq(s, 1, Len(s) - 1)) ELSE s

\* String.prototype.trim
trim(s) == trimEnd(trimStart(s))

\* encodeURIComponent on one character: unreserved characters are kept,
\* every other one becomes its percent escape
encodeChar(c) ==
    IF c = " " THEN <<"%", "2", "0">>
    ELSE IF c = "%" THEN <<"%", "2", "5">>
    ELSE <<c>>

RECURSIVE encodeURIComponent(_)
encodeURIComponent(s) ==
    IF s = <<>> THEN <<>>
    ELSE encodeChar(Head(s)) \o encodeURIComponent(Tail(s))

----------------------------------------------------------------------------
(* The API: responses and failures of POST /demographics *)

ErrorFields == {None, Some(""), Some("No address found")}
DemographicsFields == {None, Some("demographics")}
CoordinatesFields == {None, Some("coordinates")}

\* DemographicsResponse; the server echoes the query in `address`
ResponsesFor(a) ==
    [address : {a}, error : ErrorFields,
     demographics : DemographicsFields, coordinates : CoordinatesFields]

Responses == UNION {ResponsesFor(a) : a \in AddressTexts}

\* what axios.post can throw: an AxiosError without a response (transport),
\* an AxiosError with a response body whose detail may be missing, and, for
\* completeness, a value that is not an AxiosError
Failures ==
    [kind : {"network"}, detail : {None}, isError : {TRUE}, message : {"Network Error"}]
    \cup [kind : {"http"}, detail : {None, Some(""), Some("Address not found")},
          isError : {TRUE}, message : {"Request failed"}]
    \cup [kind : {"other"}, detail : {None}, isError : BOOLEAN, message : {"boom"}]

isAxiosError(f) == f.kind \in {"network", "http"}

\* error.response?.data?.detail
responseDetail(f) == IF f.kind = "http" THEN f.detail ELSE None

\* variant: the message of the AxiosError is passed on instead of the detail
getDemographicsThrows_axiosMessage(f) ==
    [isError |-> f.isError, message |-> f.message]

\* the value thrown by api.getDemographics when axios.post throws f
getDemographicsThrows(f) ==
    IF isAxiosError(f)
    THEN [isError |-> TRUE,
          message |-> IF TruthyStr(responseDetail(f)) THEN responseDetail(f)[1]
                      ELSE "Failed to fetch demographics"]
    ELSE [isError |-> f.isError, message |-> f.message]

\* the catch clause of handleSubmit
catchMessage(err) == IF err.isError THEN err.message ELSE "An error occurred"

----------------------------------------------------------------------------
(* State *)

VARIABLES
    address,    \* SearchPage: text of the input
    loading,    \* SearchPage: a request is pending
    error,      \* SearchPage: message of the banner, or None
    result,     \* SearchPage: stored response, or None
    inflight,   \* requests issued by getDemographics and not yet settled
    route,      \* the route matched by App
    location,   \* the location: pathname and navigation state
    entry,      \* history: how the current location was entered
    seq,        \* history: number of searches submitted so far
    owner,      \* history: the search that last wrote result/error/loading
    posts,      \* history: number of POST requests issued
    radiusData, \* demographics.radius_data, the prop of the detail components
    view,       \* the component rendered last and the values it computed
    card        \* DemographicsCard: its animated values and its intervals

uiVars == <<address, loading, error, result, inflight, route, location,
            entry, seq, owner, posts>>

renderVars == <<radiusData, view, card>>

vars == <<address, loading, error, result, inflight, route, location,
          entry, seq, owner, posts, radiusData, view, card>>

----------------------------------------------------------------------------
(* SearchPage: rendering *)

\* variant: the controls are never disabled
ControlsDisabled_never == FALSE

\* `disabled={loading}` on the input and on the submit button
ControlsDisabled == loading

\* {error && (...banner...)}
ShowErrorBanner == TruthyStr(error)

\* variant: the card does not test result.demographics
ShowCard_noDemographics ==
    /\ IsSome(result)
    /\ ~loading
    /\ ~TruthyStr(result[1].error)

\* {result && !loading && !result.error && result.demographics && (<DemographicsCard/>)}
ShowCard ==
    /\ IsSome(result)
    /\ ~loading
    /\ ~TruthyStr(result[1].error)
    /\ IsSome(result[1].demographics)

\* {result && !loading && !result.demographics && (...debug...)}
ShowDebug ==
    /\ IsSome(result)
    /\ ~loading
    /\ ~IsSome(result[1].demographics)

\* the props of the DemographicsCard when it is rendered
DemographicsCardProps ==
    IF route = "/" /\ ShowCard
    THEN Some([data |-> result[1], address |-> address])
    ELSE None

----------------------------------------------------------------------------
(* SearchPage: handlers *)

Init ==
    /\ address = <<>>
    /\ loading = FALSE
    /\ error = None
    /\ result = None
    /\ inflight = {}
    /\ route = "/"
    /\ location = [pathname |-> <<"/">>, state |-> None]
    /\ entry = "load"
    /\ seq = 0
    /\ owner = 0
    /\ posts = 0
    /\ radiusData = EmptyObj
    /\ view = NoView
    /\ card = NoCard

\* onChange={(e) => setAddress(e.target.value)}
Type(a) ==
    /\ UNCHANGED renderVars
    /\ route = "/"
    /\ ~ControlsDisabled
    /\ address' = a
    /\ UNCHANGED <<loading, error, result, inflight, route, location,
                   entry, seq, owner, posts>>

\* variant: the error field of the response is not looked at
IsErrorResponse_never(data) == FALSE

\* `if (data.error) setError(data.error) else setResult(data)`
IsErrorResponse(data) == TruthyStr(data.error)

\* variant: the address is tested without trimming
IsBlank_noTrim(a) == a = <<>>

\* `!address.trim()`
IsBlank(a) == trim(a) = <<>>

\* variant: the loading flag is not raised by a submit
handleSubmit_noLoading ==
    /\ UNCHANGED renderVars
    /\ route = "/"
    /\ ~ControlsDisabled
    /\ IF IsBlank(address)
       THEN /\ error' = Some("Please enter an address")
            /\ UNCHANGED <<loading, result, inflight, seq, owner, posts>>
       ELSE /\ seq < MaxSubmits
            /\ seq' = seq + 1
            /\ owner' = seq + 1
            /\ error' = None
            /\ result' = None
            /\ inflight' = inflight \cup {[id |-> seq + 1, address |-> address]}
            /\ posts' = posts + 1
            /\ UNCHANGED loading
    /\ UNCHANGED <<address, route, location, entry>>

\* variant: the previous result is kept while the new request is pending
handleSubmit_keepResult ==
    /\ UNCHANGED renderVars
    /\ route = "/"
    /\ ~ControlsDisabled
    /\ IF IsBlank(address)
       THEN /\ error' = Some("Please enter an address")
            /\ UNCHANGED <<loading, result, inflight, seq, owner, posts>>
       ELSE /\ seq < MaxSubmits
            /\ seq' = seq + 1
            /\ owner' = seq + 1
            /\ loading' = TRUE
            /\ error' = None
            /\ inflight' = inflight \cup {[id |-> seq + 1, address |-> address]}
            /\ posts' = posts + 1
            /\ UNCHANGED result
    /\ UNCHANGED <<address, route, location, entry>>

\* handleSubmit up to the await; the form can be submitted only through its
\* input or its button, which are disabled while loading
handleSubmit ==
    /\ UNCHANGED renderVars
    /\ route = "/"
    /\ ~ControlsDisabled
    /\ IF IsBlank(address)
       THEN /\ error' = Some("Please enter an address")
            /\ UNCHANGED <<loading, result, inflight, seq, owner, posts>>
       ELSE /\ seq < MaxSubmits
            /\ seq' = seq + 1
            /\ owner' = seq + 1
            /\ loading' = TRUE
            /\ error' = None
            /\ result' = None
            /\ inflight' = inflight \cup {[id |-> seq + 1, address |-> address]}
            /\ posts' = posts + 1
    /\ UNCHANGED <<address, route, location, entry>>

\* variant: no `finally`, loading is lowered on success only
Resolve_noFinally(req, data) ==
    /\ UNCHANGED renderVars
    /\ req \in inflight
    /\ data \in ResponsesFor(req.address)
    /\ inflight' = inflight \ {req}
    /\ IF IsErrorResponse(data)
       THEN error' = data.error /\ UNCHANGED <<result, loading>>
       ELSE result' = Some(data) /\ loading' = FALSE /\ UNCHANGED error
    /\ owner' = req.id
    /\ UNCHANGED <<address, route, location, entry, seq, posts>>

\* handleSubmit after the await, the request having resolved with data
Resolve(req, data) ==
    /\ UNCHANGED renderVars
    /\ req \in inflight
    /\ data \in ResponsesFor(req.address)
    /\ inflight' = inflight \ {req}
    /\ IF IsErrorResponse(data)
       THEN error' = data.error /\ UNCHANGED result
       ELSE result' = Some(data) /\ UNCHANGED error
    /\ loading' = FALSE
    /\ owner' = req.id
    /\ UNCHANGED <<address, route, location, entry, seq, posts>>

\* variant: a failed request is issued again
Reject_retry(req, f) ==
    /\ UNCHANGED renderVars
    /\ req \in inflight
    /\ f \in Failures
    /\ posts' = posts + 1
    /\ UNCHANGED <<address, loading, error, result, inflight, route, location,
                   entry, seq, owner>>

\* handleSubmit after the await, the request having failed with f
Reject(req, f) ==
    /\ UNCHANGED renderVars
    /\ req \in inflight
    /\ f \in Failures
    /\ inflight' = inflight \ {req}
    /\ error' = Some(catchMessage(getDemographicsThrows(f)))
    /\ loading' = FALSE
    /\ owner' = req.id
    /\ UNCHANGED <<address, result, route, location, entry, seq, posts>>

----------------------------------------------------------------------------
(* Navigation *)

\* <Route path="/" .../> and <Route path="/analysis/:address" .../>
matchRoute(pathname) ==
    IF pathname = <<"/">> THEN "/"
    ELSE IF Len(pathname) > 1 /\ pathname[1] = "/analysis/" THEN "/analysis/:address"
    ELSE "none"

\* DemographicsCard.handleViewDetails; SearchPage is unmounted
handleViewDetails ==
    /\ UNCHANGED renderVars
    /\ IsSome(DemographicsCardProps)
    /\ LET props == DemographicsCardProps[1]
           pathname == <<"/analysis/">> \o encodeURIComponent(props.address)
       IN /\ location' = [pathname |-> pathname,
                          state |-> Some([data |-> Some(props.data)])]
          /\ route' = matchRoute(pathname)
    /\ entry' = "card"
    /\ address' = <<>>
    /\ loading' = FALSE
    /\ error' = None
    /\ result' = None
    /\ inflight' = {}
    /\ UNCHANGED <<seq, owner, posts>>

\* the navigation states the detail route can be entered with from outside
\* the search view: none (address bar, lost state), or a state without data
ForeignStates == {None, Some([data |-> None])}
    \cup {Some([data |-> Some(r)]) :
            r \in [address : {<<"a">>}, error : {None},
                   demographics : DemographicsFields,
                   coordinates : CoordinatesFields]}

\* the addresses of the detail URLs opened from outside the search view
ForeignAddresses == {<<"a">>}

\* the detail URL is opened directly: the page is loaded afresh
EnterDetail(a, st) ==
    /\ UNCHANGED renderVars
    /\ a \in ForeignAddresses
    /\ st \in ForeignStates
    /\ location' = [pathname |-> <<"/analysis/">> \o encodeURIComponent(a),
                    state |-> st]
    /\ route' = "/analysis/:address"
    /\ entry' = "load"
    /\ address' = <<>>
    /\ loading' = FALSE
    /\ error' = None
    /\ result' = None
    /\ inflight' = {}
    /\ UNCHANGED <<seq, owner, posts>>

\* location.state?.data
locationData == IF IsSome(location.state) THEN location.state[1].data ELSE None

\* variant: only the presence of data is tested
DetailHasNoData_onlyData == ~IsSome(locationData)

\* `if (!data || !data.demographics)` of DemographicsDetail
DetailHasNoData ==
    \/ ~IsSome(locationData)
    \/ ~IsSome(locationData[1].demographics)

\* `center={[coordinates.lat, coordinates.lng]}` reads a property of null
DetailRenderThrows ==
    /\ route = "/analysis/:address"
    /\ ~DetailHasNoData
    /\ ~IsSome(locationData[1].coordinates)

\* what DemographicsDetail renders; a render that throws leaves nothing
DemographicsDetailView ==
    IF route # "/analysis/:address" THEN {}
    ELSE IF DetailHasNoData THEN {"NoDataAvailable", "BackToSearch"}
    ELSE IF DetailRenderThrows THEN {}
    ELSE {"Header", "BackToSearch", "RadiusCards", "GrowthTrends",
          "MarketMetricsDashboard", "PopulationAnalysis",
          "IncomeDistributionChart", "HomeValueGrowthChart",
          "EducationDistribution", "MarketInsights", "InteractiveMap"}

\* onClick={() => navigate('/')}: SearchPage is mounted anew
BackToSearch ==
    /\ UNCHANGED renderVars
    /\ route # "/"
    /\ location' = [pathname |-> <<"/">>, state |-> None]
    /\ route' = "/"
    /\ entry' = "back"
    /\ address' = <<>>
    /\ loading' = FALSE
    /\ error' = None
    /\ result' = None
    /\ inflight' = {}
    /\ UNCHANGED <<seq, owner, posts>>

----------------------------------------------------------------------------
(* Radius records: the payload and the values each component reads from it *)

\* most census tracts aggregated into one radius record
MaxTracts == 3

RadiusKeys == {"1_mile", "3_mile", "5_mile"}

\* a number as a fraction, for the values JavaScript computes by division
Frac(n, d) == [num |-> n, den |-> d]

\* Math.round(n / d) for d > 0: the nearest integer, halves towards +infinity
MathRound(n, d) == (2 * n + d) \div (2 * d)

\* the numbers of JavaScript that are not finite, and a finite number kept
\* to one decimal, in tenths
NaN == [kind |-> "NaN"]
Infinity == [kind |-> "Infinity"]
NegInfinity == [kind |-> "-Infinity"]
Num(tenths) == [kind |-> "num", tenths |-> tenths]

\* (n / d).toFixed(1) for d > 0, in tenths: the nearest tenth, halves away
\* from zero
toFixed1(n, d) ==
    IF n >= 0 THEN Num((20 * n + d) \div (2 * d))
    ELSE Num(0 - ((20 * (0 - n) + d) \div (2 * d)))

\* (n / d * 100).toFixed(1) for d >= 0: the division by zero of JavaScript
\* gives NaN for 0 / 0 and an infinity otherwise
percentToFixed1(n, d) ==
    IF d # 0 THEN toFixed1(100 * n, d)
    ELSE IF n = 0 THEN NaN
    ELSE IF n > 0 THEN Infinity
    ELSE NegInfinity

\* `o.k || 0` for a numeric property
NumOr0(o, k) == IF Has(o, k) THEN o[k] ELSE 0

\* variant: a radius without a record borrows the record of another radius
recordOf_borrowed(rd, radius) ==
    IF Has(rd, radius) THEN rd[radius]
    ELSE IF rd # EmptyObj THEN rd[CHOOSE r \in DOMAIN rd : TRUE]
    ELSE EmptyObj

\* `radiusData?.[radius]`, the chain going on with `?.`
recordOf(rd, radius) == IF Has(rd, radius) THEN rd[radius] ELSE EmptyObj

\* `data?.current` and `data?.historical`, the chain going on with `?.`
sectionOf(data, k) == IF Has(data, k) THEN data[k] ELSE EmptyObj

\* `data?.current?.data || data?.current || {}`
bagOf(data, k) ==
    IF Has(sectionOf(data, k), "data") THEN sectionOf(data, k).data
    ELSE sectionOf(data, k)

\* `data?.tract_count || 1`
tractCountOf(data) ==
    IF Has(data, "tract_count") /\ data.tract_count # 0 THEN data.tract_count
    ELSE 1

\* the age shown when the computed one is not plausible
FallbackAge == 38

\* the income above which PopulationAnalysis of the detail page de-aggregates
IncomeThreshold == 1000000

\* variant: the bounds 0 and 100 themselves are rejected
ageSanityCheck_exclusive(age) ==
    IF age.num <= 0 \/ age.num >= 100 * age.den THEN Frac(FallbackAge, 1) ELSE age

\* variant: only a negative age is rejected
ageSanityCheck_noUpper(age) ==
    IF age.num < 0 THEN Frac(FallbackAge, 1) ELSE age

\* `if (actualAge < 0 || actualAge > 100) actualAge = 38`
ageSanityCheck(age) ==
    IF age.num < 0 \/ age.num > 100 * age.den THEN Frac(FallbackAge, 1) ELSE age

\* DemographicsCard: the metrics extracted from the payload
DemographicsCard(rd) ==
    LET five == sectionOf(recordOf(rd, "5_mile"), "current")
        three == sectionOf(recordOf(rd, "3_mile"), "current")
        flat == NumOr0(three, "college_grad_percentage")
    IN [population5Mile |-> NumOr0(five, "total_population"),
        collegeGradPercent |->
            IF flat # 0 THEN flat
            ELSE NumOr0(sectionOf(three, "data"), "college_grad_percentage")]

\* RadiusCards: one card per radius
RadiusCards(rd) ==
    [radius \in RadiusKeys |->
        LET data == recordOf(rd, radius)
            currentData == bagOf(data, "current")
        IN [population |-> NumOr0(currentData, "total_population"),
            medianIncome |-> NumOr0(currentData, "median_household_income")]]

\* PopulationAnalysis of components/PopulationAnalysis.tsx: one row per radius
PopulationAnalysis(rd) ==
    [radius \in RadiusKeys |->
        LET data == recordOf(rd, radius)
            currentData == bagOf(data, "current")
            tractCount == tractCountOf(data)
            population == NumOr0(currentData, "total_population")
            medianIncome == NumOr0(currentData, "median_household_income")
            medianAge == NumOr0(currentData, "median_age")
            actualIncome == IF tractCount > 1 THEN MathRound(medianIncome, tractCount)
                            ELSE medianIncome
            actualAge == IF tractCount > 1 THEN Frac(medianAge, tractCount)
                         ELSE Frac(medianAge, 1)
        IN [population |-> population,
            actualIncome |-> actualIncome,
            actualAge |-> ageSanityCheck(actualAge)]]

\* PopulationAnalysis as defined in pages/DemographicsDetail.tsx
PopulationAnalysisDetail(rd) ==
    [radius \in RadiusKeys |->
        LET data == recordOf(rd, radius)
            currentData == bagOf(data, "current")
            tractCount == tractCountOf(data)
            population == NumOr0(currentData, "total_population")
            medianIncome == NumOr0(currentData, "median_household_income")
            medianAge == NumOr0(currentData, "median_age")
            actualIncome == IF tractCount > 1 /\ medianIncome > IncomeThreshold
                            THEN MathRound(medianIncome, tractCount)
                            ELSE medianIncome
            actualAge == IF tractCount > 1 /\ medianAge > 100
                         THEN Frac(medianAge, tractCount)
                         ELSE Frac(medianAge, 1)
        IN [population |-> population,
            actualIncome |-> actualIncome,
            actualAge |-> ageSanityCheck(actualAge)]]

\* variant: the bounds 3 and 5 belong to the band above them
getAffordabilityStatus_strict(ratio) ==
    IF ratio.num < 3 * ratio.den THEN "Affordable"
    ELSE IF ratio.num < 5 * ratio.den THEN "Moderately Unaffordable"
    ELSE "Severely Unaffordable"

\* getAffordabilityStatus of MarketMetricsDashboard, the ratio a fraction
getAffordabilityStatus(ratio) ==
    IF ratio.num <= 3 * ratio.den THEN "Affordable"
    ELSE IF ratio.num <= 5 * ratio.den THEN "Moderately Unaffordable"
    ELSE "Severely Unaffordable"

\* variant: the home value is divided by the income whatever the income
affordabilityRatio_unguarded(actualHomeValue, actualIncome) ==
    Frac(actualHomeValue, actualIncome)

\* `actualIncome > 0 ? (actualHomeValue / actualIncome) : 0`
affordabilityRatio(actualHomeValue, actualIncome) ==
    IF actualIncome > 0 THEN Frac(actualHomeValue, actualIncome) ELSE Frac(0, 1)

\* variant: the difference is shown whatever its sign
jobsAddedShown_signed(jobsAdded) == jobsAdded

\* `+{jobsAdded > 0 ? jobsAdded.toLocaleString() : '0'}`
jobsAddedShown(jobsAdded) == IF jobsAdded > 0 THEN jobsAdded ELSE 0

\* MarketMetricsDashboard: the values computed for the 3-mile record
MarketMetricsDashboard(rd) ==
    LET threeMileData == recordOf(rd, "3_mile")
        currentData == bagOf(threeMileData, "current")
        historicalData == bagOf(threeMileData, "historical")
        tractCount == tractCountOf(threeMileData)
        medianIncome == NumOr0(currentData, "median_household_income")
        medianHomeValue == NumOr0(currentData, "median_home_value")
        medianAge == NumOr0(currentData, "median_age")
        actualIncome == IF tractCount > 1 THEN MathRound(medianIncome, tractCount)
                        ELSE medianIncome
        actualHomeValue == IF tractCount > 1 THEN MathRound(medianHomeValue, tractCount)
                           ELSE medianHomeValue
        actualAge == IF tractCount > 1 /\ medianAge > 100
                     THEN Frac(MathRound(medianAge, tractCount), 1)
                     ELSE Frac(medianAge, 1)
        ratio == affordabilityRatio(actualHomeValue, actualIncome)
        employed == NumOr0(currentData, "employed")
        historicalEmployed == NumOr0(historicalData, "employed")
    IN [population |-> NumOr0(currentData, "total_population"),
        affordabilityRatio |-> ratio,
        affordabilityStatus |-> getAffordabilityStatus(ratio),
        actualIncome |-> actualIncome,
        actualHomeValue |-> actualHomeValue,
        actualAge |-> ageSanityCheck(actualAge),
        laborForce |-> NumOr0(currentData, "labor_force"),
        employed |-> employed,
        historicalEmployed |-> historicalEmployed,
        jobsAdded |-> employed - historicalEmployed,
        jobsAddedShown |-> jobsAddedShown(employed - historicalEmployed)]

\* variant: the band from 45k to 50k is counted in two buckets
incomeCategories_overlap(data) ==
    [under50k |->
        NumOr0(data, "income_less_10k") + NumOr0(data, "income_10k_15k")
        + NumOr0(data, "income_15k_20k") + NumOr0(data, "income_20k_25k")
        + NumOr0(data, "income_25k_30k") + NumOr0(data, "income_30k_35k")
        + NumOr0(data, "income_35k_40k") + NumOr0(data, "income_40k_45k")
        + NumOr0(data, "income_45k_50k"),
     b50k_100k |->
        NumOr0(data, "income_45k_50k")
        + NumOr0(data, "income_50k_60k") + NumOr0(data, "income_60k_75k")
        + NumOr0(data, "income_75k_100k"),
     b100k_150k |->
        NumOr0(data, "income_100k_125k") + NumOr0(data, "income_125k_150k"),
     b150k_plus |->
        NumOr0(data, "income_150k_200k") + NumOr0(data, "income_200k_plus")]

\* IncomeDistributionChart: the four buckets summed from the sub-bands
incomeCategories(data) ==
    [under50k |->
        NumOr0(data, "income_less_10k") + NumOr0(data, "income_10k_15k")
        + NumOr0(data, "income_15k_20k") + NumOr0(data, "income_20k_25k")
        + NumOr0(data, "income_25k_30k") + NumOr0(data, "income_30k_35k")
        + NumOr0(data, "income_35k_40k") + NumOr0(data, "income_40k_45k")
        + NumOr0(data, "income_45k_50k"),
     b50k_100k |->
        NumOr0(data, "income_50k_60k") + NumOr0(data, "income_60k_75k")
        + NumOr0(data, "income_75k_100k"),
     b100k_150k |->
        NumOr0(data, "income_100k_125k") + NumOr0(data, "income_125k_150k"),
     b150k_plus |->
        NumOr0(data, "income_150k_200k") + NumOr0(data, "income_200k_plus")]

\* the four buckets as the chart takes them, in order
bucketsOf(c) == <<c.under50k, c.b50k_100k, c.b100k_150k, c.b150k_plus>>

\* `[25, 25, 25, 25]`
DefaultDistribution == [n \in 1..4 |-> Num(250)]

\* variant: a zero total is divided by like any other
calculateIncomeDistribution_noZeroGuard(rd, radius) ==
    IF ~Has(rd, radius) THEN DefaultDistribution
    ELSE LET c == incomeCategories(bagOf(rd[radius], "current"))
             total == c.under50k + c.b50k_100k + c.b100k_150k + c.b150k_plus
         IN [n \in 1..4 |-> percentToFixed1(bucketsOf(c)[n], total)]

\* calculateIncomeDistribution: the share of each bucket, to one decimal
calculateIncomeDistribution(rd, radius) ==
    IF ~Has(rd, radius) THEN DefaultDistribution
    ELSE LET c == incomeCategories(bagOf(rd[radius], "current"))
             total == c.under50k + c.b50k_100k + c.b100k_150k + c.b150k_plus
         IN IF total = 0 THEN DefaultDistribution
            ELSE [n \in 1..4 |-> percentToFixed1(bucketsOf(c)[n], total)]

IncomeDistributionChart(rd) ==
    [radius \in RadiusKeys |->
        [categories |-> incomeCategories(bagOf(recordOf(rd, radius), "current")),
         distribution |-> calculateIncomeDistribution(rd, radius)]]

\* a whole number of JavaScript, as against NaN
Whole(v) == [kind |-> "int", value |-> v]

\* the years assumed when the payload names none
DefaultCurrentYear == 2022
DefaultHistoricalYear == 2017

\* `parseInt(radiusData?.['5_mile']?.current?.year || '2022')`: the year
\* is read on the section itself
yearOf(data, k, default) ==
    IF Has(sectionOf(data, k), "year") THEN sectionOf(data, k).year ELSE default

\* variant: the interpolated value is cut, not rounded
interpolate_floor(historical, current, k, span) ==
    IF span = 0 THEN NaN
    ELSE Whole((historical * span + (current - historical) * k) \div span)

\* Math.round(historical + (current - historical) * progress) with progress
\* = k / span; a span of 0 makes progress 0 / 0, which is NaN
interpolate(historical, current, k, span) ==
    IF span = 0 THEN NaN
    ELSE Whole(MathRound(historical * span + (current - historical) * k, span))

\* variant: the loop stops before the current year
interpolatedSeries_exclusive(historical, current, span) ==
    [n \in 1..span |-> interpolate(historical, current, n - 1, span)]

\* the values pushed by `for (year = historicalYear; year <= currentYear; year++)`
interpolatedSeries(historical, current, span) ==
    [n \in 1..(span + 1) |-> interpolate(historical, current, n - 1, span)]

\* EducationDistribution: the degree counts of the 5-mile record
EducationDistribution(rd) ==
    LET fiveMileData == recordOf(rd, "5_mile")
        currentData == bagOf(fiveMileData, "current")
        historicalData == bagOf(fiveMileData, "historical")
        degrees(bag) ==
            [bachelors |-> NumOr0(bag, "bachelors_degree"),
             masters |-> NumOr0(bag, "masters_degree"),
             professional |-> NumOr0(bag, "professional_degree"),
             doctorate |-> NumOr0(bag, "doctorate_degree")]
        total(d) == d.bachelors + d.masters + d.professional + d.doctorate
        currentYear == yearOf(fiveMileData, "current", DefaultCurrentYear)
        historicalYear == yearOf(fiveMileData, "historical", DefaultHistoricalYear)
        span == currentYear - historicalYear
        cur == degrees(currentData)
        hist == degrees(historicalData)
    IN [currentYear |-> currentYear,
        historicalYear |-> historicalYear,
        years |-> [n \in 1..(span + 1) |-> historicalYear + n - 1],
        bachelorsData |-> interpolatedSeries(hist.bachelors, cur.bachelors, span),
        mastersData |-> interpolatedSeries(hist.masters, cur.masters, span),
        advancedData |->
            interpolatedSeries(hist.professional + hist.doctorate,
                               cur.professional + cur.doctorate, span),
        totalData |-> interpolatedSeries(total(hist), total(cur), span),
        current |-> degrees(currentData),
        historical |-> degrees(historicalData),
        currentTotal |-> total(degrees(currentData)),
        historicalTotal |-> total(degrees(historicalData)),
        growthPercent |->
            percentToFixed1(total(degrees(currentData)) - total(degrees(historicalData)),
                            total(degrees(historicalData))),
        population |-> IF NumOr0(currentData, "total_population") = 0 THEN 1
                       ELSE currentData.total_population]

\* HomeValueGrowthChart.getChartData: the home values read for each radius
\* and their growth
getChartData(rd) ==
    [radius \in RadiusKeys |->
        LET radiusInfo == recordOf(rd, radius)
            current == NumOr0(sectionOf(radiusInfo, "current"), "median_home_value")
            historical == NumOr0(sectionOf(radiusInfo, "historical"), "median_home_value")
        IN [current |-> current,
            historical |-> historical,
            tractCount |-> tractCountOf(radiusInfo),
            growthPercent |->
                IF historical > 0 /\ current > 0
                THEN percentToFixed1(current - historical, historical)
                ELSE Num(0)]]

\* the headline growth of the 5-mile record, as displayed with toFixed(1)
homeValueGrowth(rd) ==
    LET fiveMileData == recordOf(rd, "5_mile")
        current == NumOr0(sectionOf(fiveMileData, "current"), "median_home_value")
        historical == NumOr0(sectionOf(fiveMileData, "historical"), "median_home_value")
    IN IF current # 0 /\ historical # 0
       THEN percentToFixed1(current - historical, historical)
       ELSE Num(0)

HomeValueGrowthChart(rd) ==
    [chartData |-> getChartData(rd), homeValueGrowth |-> homeValueGrowth(rd)]

----------------------------------------------------------------------------
(* Rendering the components on a payload *)

\* the payloads rendered: the numbers of a radius record, its layout (metrics
\* on current/historical, or nested under data) and its tract count
Populations == {0, 12000}
Incomes == {0, 85000, 2400000}
HomeValues == {0, 600000}
Ages == {-5, 0, 35, 100, 150, 240}
TractInputs == {None} \cup {Some(n) : n \in 0..MaxTracts}

RadiusInputs ==
    [layout : {"flat", "nested"}, tract : TractInputs, pop : Populations,
     inc : Incomes, hv : HomeValues, age : Ages, extra : BOOLEAN]

\* the current bag; the metrics other than the four scalars are all zero or
\* all set, according to `extra`
currentBag(i) ==
    LET x == IF i.extra THEN 1 ELSE 0
    IN [total_population |-> i.pop,
        median_household_income |-> i.inc,
        median_home_value |-> i.hv,
        median_age |-> i.age,
        college_grad_percentage |-> 45 * x,
        labor_force |-> 9000 * x,
        employed |-> 8500 * x,
        bachelors_degree |-> 3000 * x,
        masters_degree |-> 1200 * x,
        professional_degree |-> 300 * x,
        doctorate_degree |-> 200 * x,
        income_less_10k |-> 1 * x, income_10k_15k |-> 2 * x,
        income_15k_20k |-> 3 * x, income_20k_25k |-> 4 * x,
        income_25k_30k |-> 5 * x, income_30k_35k |-> 6 * x,
        income_35k_40k |-> 7 * x, income_40k_45k |-> 8 * x,
        income_45k_50k |-> 9 * x, income_50k_60k |-> 10 * x,
        income_60k_75k |-> 11 * x, income_75k_100k |-> 12 * x,
        income_100k_125k |-> 13 * x, income_125k_150k |-> 14 * x,
        income_150k_200k |-> 15 * x, income_200k_plus |-> 16 * x]

historicalBag(i) ==
    LET x == IF i.extra THEN 1 ELSE 0
    IN [total_population |-> 10000 * x,
        median_home_value |-> 500000 * x,
        employed |-> 8000 * x,
        bachelors_degree |-> 2500 * x,
        masters_degree |-> 1000 * x,
        professional_degree |-> 250 * x,
        doctorate_degree |-> 150 * x]

\* a bag placed on the section itself or nested under `data`
mkSection(layout, bag) == IF layout = "nested" THEN [data |-> bag] ELSE bag

mkRecord(i) ==
    IF IsSome(i.tract)
    THEN [current |-> mkSection(i.layout, currentBag(i)),
          historical |-> mkSection(i.layout, historicalBag(i)),
          tract_count |-> i.tract[1]]
    ELSE [current |-> mkSection(i.layout, currentBag(i)),
          historical |-> mkSection(i.layout, historicalBag(i))]

mkRadiusData(i) == [radius \in RadiusKeys |-> mkRecord(i)]

\* payloads with radius keys left out and with records whose current or
\* historical section is left out
PartialInputs ==
    [layout : {"flat", "nested"}, present : SUBSET RadiusKeys,
     current : BOOLEAN, historical : BOOLEAN]

sampleInput(layout) ==
    [layout |-> layout, tract |-> Some(2), pop |-> 12000, inc |-> 85000,
     hv |-> 600000, age |-> 35, extra |-> TRUE]

mkPartialRecord(p) ==
    [tract_count |-> 2]
    @@ (IF p.current
        THEN [current |-> mkSection(p.layout, currentBag(sampleInput(p.layout)))]
        ELSE EmptyObj)
    @@ (IF p.historical
        THEN [historical |-> mkSection(p.layout, historicalBag(sampleInput(p.layout)))]
        ELSE EmptyObj)

mkPartialRadiusData(p) == [radius \in p.present |-> mkPartialRecord(p)]

\* incomes that put the ratio of a 600000 home value on and just above the
\* bounds 3 and 5 of the affordability status
BoundaryIncomes == {119999, 120000, 199999, 200000}

AffordabilityPayloads ==
    {mkRadiusData([sampleInput(layout) EXCEPT !.tract = None, !.inc = inc]) :
        layout \in {"flat", "nested"}, inc \in BoundaryIncomes}

\* the largest household count of an income band
MaxBandCount == 3

\* payloads with one band of each bucket counting 0..MaxBandCount households
IncomeInputs ==
    [layout : {"flat", "nested"}, a : 0..MaxBandCount, b : 0..MaxBandCount,
     c : 0..MaxBandCount, d : 0..MaxBandCount]

mkIncomeRecord(i) ==
    LET bag == [currentBag([sampleInput(i.layout) EXCEPT !.extra = FALSE])
                   EXCEPT !.income_less_10k = i.a, !.income_50k_60k = i.b,
                          !.income_100k_125k = i.c, !.income_200k_plus = i.d]
    IN [current |-> mkSection(i.layout, bag)]

IncomePayloads ==
    {[radius \in RadiusKeys |-> mkIncomeRecord(i)] : i \in IncomeInputs}

\* the years a payload names, None when it names none, and the bachelor's
\* degrees of the two bags
CurrentYears == {None, Some(2022), Some(2023)}
HistoricalYears == {None, Some(2021), Some(2022), Some(2023)}
CurrentBachelors == {0, 3001}
HistoricalBachelors == {0, 2500, 3500}

EducationInputs ==
    [layout : {"flat", "nested"}, currentYear : CurrentYears,
     historicalYear : HistoricalYears, currentBachelors : CurrentBachelors,
     historicalBachelors : HistoricalBachelors]

\* a section carrying its year next to its metrics
withYear(section, year) ==
    IF IsSome(year) THEN [year |-> year[1]] @@ section ELSE section

mkEducationRecord(e) ==
    LET cur == [currentBag(sampleInput(e.layout))
                   EXCEPT !.bachelors_degree = e.currentBachelors]
        hist == [historicalBag(sampleInput(e.layout))
                   EXCEPT !.bachelors_degree = e.historicalBachelors]
    IN [current |-> withYear(mkSection(e.layout, cur), e.currentYear),
        historical |-> withYear(mkSection(e.layout, hist), e.historicalYear)]

EducationPayloads ==
    {[radius \in RadiusKeys |-> mkEducationRecord(e)] : e \in EducationInputs}

\* the employed of the current and of the historical bag
CurrentEmployed == {0, 8000, 8500}
HistoricalEmployed == {0, 8000, 9000}

EmploymentInputs ==
    [layout : {"flat", "nested"}, employed : CurrentEmployed,
     historicalEmployed : HistoricalEmployed]

mkEmploymentRecord(e) ==
    LET cur == [currentBag(sampleInput(e.layout)) EXCEPT !.employed = e.employed]
        hist == [historicalBag(sampleInput(e.layout))
                   EXCEPT !.employed = e.historicalEmployed]
    IN [current |-> mkSection(e.layout, cur),
        historical |-> mkSection(e.layout, hist)]

EmploymentPayloads ==
    {[radius \in RadiusKeys |-> mkEmploymentRecord(e)] : e \in EmploymentInputs}

\* the sub-bands of the income distribution, as the payload names them
BandKeys ==
    {"income_less_10k", "income_10k_15k", "income_15k_20k", "income_20k_25k",
     "income_25k_30k", "income_30k_35k", "income_35k_40k", "income_40k_45k",
     "income_45k_50k", "income_50k_60k", "income_60k_75k", "income_75k_100k",
     "income_100k_125k", "income_125k_150k", "income_150k_200k",
     "income_200k_plus"}

\* payloads whose current bag carries one sub-band only, the others absent
SingleBandPayloads ==
    {[radius \in RadiusKeys |->
        [current |-> mkSection(layout, [k \in {band} |-> 7])]] :
            layout \in {"flat", "nested"}, band \in BandKeys}

\* the largest degree count of the small education payloads
MaxDegrees == 2

\* payloads with few graduates, none of them in the historical bag, charted
\* over three or four years
SmallDegreeInputs ==
    [layout : {"flat", "nested"}, historicalYear : {2019, 2020},
     bachelors : 0..MaxDegrees, masters : 0..MaxDegrees,
     professional : 0..MaxDegrees]

mkSmallDegreeRecord(e) ==
    LET none == [sampleInput(e.layout) EXCEPT !.extra = FALSE]
        cur == [currentBag(none)
                   EXCEPT !.bachelors_degree = e.bachelors,
                          !.masters_degree = e.masters,
                          !.professional_degree = e.professional]
    IN [current |-> withYear(mkSection(e.layout, cur), None),
        historical |-> withYear(mkSection(e.layout, historicalBag(none)),
                                Some(e.historicalYear))]

SmallDegreePayloads ==
    {[radius \in RadiusKeys |-> mkSmallDegreeRecord(e)] : e \in SmallDegreeInputs}

\* payloads whose income is lost, or not, by the division by tract_count
LowIncomePayloads ==
    {mkRadiusData([sampleInput(layout) EXCEPT !.tract = Some(n), !.inc = 1]) :
        layout \in {"flat", "nested"}, n \in 1..MaxTracts}

\* the payloads the components are rendered on
Payloads ==
    {mkRadiusData(i) : i \in RadiusInputs}
    \cup {mkPartialRadiusData(p) : p \in PartialInputs}
    \cup AffordabilityPayloads
    \cup IncomePayloads
    \cup EducationPayloads
    \cup EmploymentPayloads
    \cup SingleBandPayloads
    \cup SmallDegreePayloads
    \cup LowIncomePayloads

InitRender ==
    /\ address = <<>>
    /\ loading = FALSE
    /\ error = None
    /\ result = None
    /\ inflight = {}
    /\ route = "/"
    /\ location = [pathname |-> <<"/">>, state |-> None]
    /\ entry = "load"
    /\ seq = 0
    /\ owner = 0
    /\ posts = 0
    /\ radiusData \in Payloads
    /\ view = NoView
    /\ card = NoCard

RenderDemographicsCard ==
    /\ view' = [component |-> "DemographicsCard", out |-> DemographicsCard(radiusData)]
    /\ UNCHANGED <<uiVars, radiusData, card>>

RenderRadiusCards ==
    /\ view' = [component |-> "RadiusCards", out |-> RadiusCards(radiusData)]
    /\ UNCHANGED <<uiVars, radiusData, card>>

RenderPopulationAnalysis ==
    /\ view' = [component |-> "PopulationAnalysis", out |-> PopulationAnalysis(radiusData)]
    /\ UNCHANGED <<uiVars, radiusData, card>>

RenderPopulationAnalysisDetail ==
    /\ view' = [component |-> "PopulationAnalysisDetail",
                out |-> PopulationAnalysisDetail(radiusData)]
    /\ UNCHANGED <<uiVars, radiusData, card>>

RenderMarketMetricsDashboard ==
    /\ view' = [component |-> "MarketMetricsDashboard",
                out |-> MarketMetricsDashboard(radiusData)]
    /\ UNCHANGED <<uiVars, radiusData, card>>

RenderIncomeDistributionChart ==
    /\ view' = [component |-> "IncomeDistributionChart",
                out |-> IncomeDistributionChart(radiusData)]
    /\ UNCHANGED <<uiVars, radiusData, card>>

RenderEducationDistribution ==
    /\ view' = [component |-> "EducationDistribution",
                out |-> EducationDistribution(radiusData)]
    /\ UNCHANGED <<uiVars, radiusData, card>>

RenderHomeValueGrowthChart ==
    /\ view' = [component |-> "HomeValueGrowthChart",
                out |-> HomeValueGrowthChart(radiusData)]
    /\ UNCHANGED <<uiVars, radiusData, card>>

NextRender ==
    \/ RenderDemographicsCard
    \/ RenderRadiusCards
    \/ RenderPopulationAnalysis
    \/ RenderPopulationAnalysisDetail
    \/ RenderMarketMetricsDashboard
    \/ RenderIncomeDistributionChart
    \/ RenderEducationDistribution
    \/ RenderHomeValueGrowthChart

SpecRender == InitRender /\ [][NextRender]_vars

----------------------------------------------------------------------------
(* DemographicsCard: the count-up animation *)

\* most runs of the animation effect (a mount or a change of its targets)
MaxEffects == 2

\* `const steps = 60`
steps == 60

\* the values the card counts up to: population5Mile, populationGrowth in
\* hundredths of a percent and collegeGradPercent in tenths of a percent
CardTargets ==
    {[population |-> 12345, growth |-> 525, college |-> 456],
     [population |-> 0, growth |-> -130, college |-> 0]}

\* the values set by the tick that makes currentStep k
animatedAt(targets, k) ==
    [population |-> (targets.population * k) \div steps,
     growthRate |-> toFixed1(targets.growth * k, 100 * steps).tenths,
     collegeGrad |-> (targets.college * k) \div (10 * steps)]

\* the interval started by a run of the effect, with the values it closes over
newTimer(id, targets) == [id |-> id, currentStep |-> 0, targets |-> targets]

InitCard ==
    /\ address = <<>>
    /\ loading = FALSE
    /\ error = None
    /\ result = None
    /\ inflight = {}
    /\ route = "/"
    /\ location = [pathname |-> <<"/">>, state |-> None]
    /\ entry = "load"
    /\ seq = 0
    /\ owner = 0
    /\ posts = 0
    /\ radiusData = EmptyObj
    /\ view = NoView
    /\ card = NoCard

\* the card is mounted: fresh state, and the effect starts its interval
MountCard(targets) ==
    /\ ~card.mounted
    /\ card.effect < MaxEffects
    /\ card' = [mounted |-> TRUE, targets |-> targets,
                animatedValues |-> InitialValues,
                timers |-> card.timers \cup {newTimer(card.effect + 1, targets)},
                effect |-> card.effect + 1, ticks |-> 0, stale |-> card.stale]
    /\ UNCHANGED <<uiVars, radiusData, view>>

\* the callback of setInterval; a tick of an interval that does not belong
\* to the mounted card's last effect is recorded in `stale`
Tick(timer) ==
    /\ timer \in card.timers
    /\ LET k == timer.currentStep + 1
           current == card.mounted /\ timer.id = card.effect
       IN card' = [card EXCEPT
                     !.animatedValues =
                         IF card.mounted THEN animatedAt(timer.targets, k) ELSE @,
                     !.timers =
                         IF k >= steps THEN @ \ {timer}
                         ELSE (@ \ {timer}) \cup {[timer EXCEPT !.currentStep = k]},
                     !.ticks = IF current THEN @ + 1 ELSE @,
                     !.stale = @ \/ ~current]
    /\ UNCHANGED <<uiVars, radiusData, view>>

\* variant: the effect has no cleanup
ChangeTargets_noCleanup(targets) ==
    /\ card.mounted
    /\ targets # card.targets
    /\ card.effect < MaxEffects
    /\ card' = [card EXCEPT
                  !.targets = targets,
                  !.timers = @ \cup {newTimer(card.effect + 1, targets)},
                  !.effect = @ + 1,
                  !.ticks = 0]
    /\ UNCHANGED <<uiVars, radiusData, view>>

\* a dependency of the effect changes: its cleanup clears the interval and
\* the effect runs again
ChangeTargets(targets) ==
    /\ card.mounted
    /\ targets # card.targets
    /\ card.effect < MaxEffects
    /\ card' = [card EXCEPT
                  !.targets = targets,
                  !.timers = {newTimer(card.effect + 1, targets)},
                  !.effect = @ + 1,
                  !.ticks = 0]
    /\ UNCHANGED <<uiVars, radiusData, view>>

\* the card is unmounted: the cleanup of the effect clears the interval
UnmountCard ==
    /\ card.mounted
    /\ card' = [card EXCEPT !.mounted = FALSE, !.timers = {}]
    /\ UNCHANGED <<uiVars, radiusData, view>>

NextCard ==
    \/ \E targets \in CardTargets : MountCard(targets)
    \/ \E timer \in card.timers : Tick(timer)
    \/ \E targets \in CardTargets : ChangeTargets(targets)
    \/ UnmountCard

SpecCard == InitCard /\ [][NextCard]_vars

----------------------------------------------------------------------------
(* Properties of the search view and of the navigation *)

\* C1: a response whose error field is non-null (the empty string included)
\* is never stored as result, never given to a DemographicsCard and never
\* passed to the detail view.
C1_ErrorResponseNeverShown ==
    /\ IsSome(result) => ~IsSome(result[1].error)
    /\ IsSome(DemographicsCardProps) => ~IsSome(DemographicsCardProps[1].data.error)
    /\ (entry = "card" /\ IsSome(locationData)) => ~IsSome(locationData[1].error)

\* C2: a submit with a blank (empty or whitespace-only) address only sets
\* the error 'Please enter an address': loading stays false and no request is
\* issued; and every request that is issued carries an address whose trimmed
\* form is not empty.
C2_BlankSubmitIssuesNoRequest ==
    /\ [](\A req \in inflight : trim(req.address) # <<>>)
    /\ [][(route = "/" /\ route' = "/" /\ trim(address) = <<>> /\ error' # error)
            => /\ error' = Some("Please enter an address")
               /\ loading' = FALSE
               /\ inflight' = inflight
               /\ posts' = posts]_vars
    /\ [][posts' # posts => trim(address) # <<>>]_vars

C2_Witness ==
    /\ error = Some("Please enter an address")
    /\ address # <<>>
    /\ trim(address) = <<>>
    /\ ~loading
    /\ posts = 0

C4_OnlyLatestSearchWrites ==
    /\ owner = seq
    /\ \A req \in inflight : req.id = seq

C4_Witness ==
    /\ seq = 2
    /\ owner = 2
    /\ IsSome(result)
    /\ ~loading

\* C5: at most one request is outstanding, and while it is outstanding
\* loading is true, the controls are disabled and no submit is possible.
C5_AtMostOneRequest ==
    /\ Cardinality(inflight) <= 1
    /\ inflight # {} => (loading /\ ~ENABLED handleSubmit)
    /\ loading => inflight # {}

C5_Witness ==
    /\ Cardinality(inflight) = 1
    /\ loading
    /\ seq = 2

\* C6: when the HTTP call fails (no response, or a response that is not 2xx)
\* the banner shows the detail of the response if it has one and
\* 'Failed to fetch demographics' otherwise, and result stays null.
C6_FailureMessage ==
    [][\A req \in inflight : \A f \in Failures :
         (f.kind \in {"network", "http"} /\ Reject(req, f)) =>
            /\ error' = Some(IF f.kind = "http" /\ f.detail \notin {None, Some("")}
                             THEN f.detail[1]
                             ELSE "Failed to fetch demographics")
            /\ result' = None]_vars

C6_Witness ==
    /\ error = Some("Address not found")
    /\ result = None
    /\ ~loading
    /\ inflight = {}

\* C7: the detail route entered without navigation state, or with a state
\* whose data or data.demographics is missing, shows only the 'No Data
\* Available' fallback with its Back to Search action.
C7_DetailFallback ==
    (/\ route = "/analysis/:address"
     /\ \/ location.state = None
        \/ location.state[1].data = None
        \/ location.state[1].data[1].demographics = None)
    => DemographicsDetailView = {"NoDataAvailable", "BackToSearch"}

C7_Witness ==
    /\ route = "/analysis/:address"
    /\ location.state = Some([data |-> Some([address |-> <<"a">>, error |-> None,
                                             demographics |-> None,
                                             coordinates |-> Some("coordinates")])])
    /\ DemographicsDetailView = {"NoDataAvailable", "BackToSearch"}

\* C8: a stored response without demographics shows the debug fallback and
\* not the card; whenever a result is stored and nothing is loading exactly
\* one of the card and the debug fallback is shown.
C8_CardOrDebug ==
    (route = "/" /\ IsSome(result) /\ ~loading) =>
        /\ ShowCard # ShowDebug
        /\ (result[1].error = None /\ result[1].demographics = None)
              => (ShowDebug /\ ~ShowCard)

C8_Witness ==
    /\ route = "/"
    /\ IsSome(result)
    /\ result[1].error = None
    /\ result[1].demographics = None
    /\ ShowDebug
    /\ ~ShowCard

----------------------------------------------------------------------------
(* Properties of the values read from a radius record *)

\* the same section with its bag moved under `data`, or moved out of it
flipSection(sec) == IF Has(sec, "data") THEN sec.data ELSE [data |-> sec]

\* the payload carrying the same numbers in the other layout
otherLayout(rd) ==
    [radius \in DOMAIN rd |->
        [k \in DOMAIN rd[radius] |->
            IF k \in {"current", "historical"} THEN flipSection(rd[radius][k])
            ELSE rd[radius][k]]]

\* what the component computes on a payload
componentOut(c, rd) ==
    CASE c = "DemographicsCard" -> DemographicsCard(rd)
      [] c = "RadiusCards" -> RadiusCards(rd)
      [] c = "PopulationAnalysis" -> PopulationAnalysis(rd)
      [] c = "PopulationAnalysisDetail" -> PopulationAnalysisDetail(rd)
      [] c = "MarketMetricsDashboard" -> MarketMetricsDashboard(rd)
      [] c = "IncomeDistributionChart" -> IncomeDistributionChart(rd)
      [] c = "EducationDistribution" -> EducationDistribution(rd)
      [] c = "HomeValueGrowthChart" -> HomeValueGrowthChart(rd)

\* C9: every consumer of a radius record computes the same values from a
\* record with the metrics directly on current/historical and from a record
\* with the same numbers nested under current.data/historical.data.
C9_LayoutsAgree ==
    view.component # "none" =>
        view.out = componentOut(view.component, otherLayout(radiusData))

\* the number the payload carries for a metric of a bag, 0 if none
rawMetric(rd, radius, section, k) ==
    IF ~Has(rd, radius) THEN 0
    ELSE IF ~Has(rd[radius], section) THEN 0
    ELSE LET sec == rd[radius][section]
         IN IF Has(sec, "data")
            THEN (IF Has(sec.data, k) THEN sec.data[k] ELSE 0)
            ELSE (IF Has(sec, k) THEN sec[k] ELSE 0)

\* the number the payload carries for a metric of the current bag, 0 if none
rawScalar(rd, radius, k) == rawMetric(rd, radius, "current", k)

\* the tract count the payload carries, 1 if none
rawTracts(rd, radius) ==
    IF Has(rd, radius) /\ Has(rd[radius], "tract_count") /\ rd[radius].tract_count # 0
    THEN rd[radius].tract_count
    ELSE 1

\* the record has tract_count 1 or no tract_count
oneTract(rd, radius) ==
    /\ Has(rd, radius)
    /\ ~Has(rd[radius], "tract_count") \/ rd[radius].tract_count = 1

\* C10 as stated: with tract_count 1 (or absent) the population, income, home
\* value and age computed by PopulationAnalysis and MarketMetricsDashboard
\* are the raw values of the payload.
C10_OneTractKeepsRaw ==
    /\ view.component \in {"PopulationAnalysis", "PopulationAnalysisDetail"} =>
         \A radius \in RadiusKeys : oneTract(radiusData, radius) =>
            /\ view.out[radius].population = rawScalar(radiusData, radius, "total_population")
            /\ view.out[radius].actualIncome
                 = rawScalar(radiusData, radius, "median_household_income")
            /\ view.out[radius].actualAge
                 = Frac(rawScalar(radiusData, radius, "median_age"), 1)
    /\ view.component = "MarketMetricsDashboard" =>
         (oneTract(radiusData, "3_mile") =>
            /\ view.out.population = rawScalar(radiusData, "3_mile", "total_population")
            /\ view.out.actualIncome
                 = rawScalar(radiusData, "3_mile", "median_household_income")
            /\ view.out.actualHomeValue
                 = rawScalar(radiusData, "3_mile", "median_home_value")
            /\ view.out.actualAge = Frac(rawScalar(radiusData, "3_mile", "median_age"), 1))

\* the age expected with one tract: the raw age, or 38 outside [0, 100]
expectedAge(raw) == IF raw < 0 \/ raw > 100 THEN Frac(38, 1) ELSE Frac(raw, 1)

\* C10 as amended: with tract_count 1 (or absent) the population, income and
\* home value are the raw values, and the age is the raw value when it lies
\* in [0, 100] and 38 otherwise.
C10_OneTractKeepsRawOrFallbackAge ==
    /\ view.component \in {"PopulationAnalysis", "PopulationAnalysisDetail"} =>
         \A radius \in RadiusKeys : oneTract(radiusData, radius) =>
            /\ view.out[radius].population = rawScalar(radiusData, radius, "total_population")
            /\ view.out[radius].actualIncome
                 = rawScalar(radiusData, radius, "median_household_income")
            /\ view.out[radius].actualAge
                 = expectedAge(rawScalar(radiusData, radius, "median_age"))
    /\ view.component = "MarketMetricsDashboard" =>
         (oneTract(radiusData, "3_mile") =>
            /\ view.out.population = rawScalar(radiusData, "3_mile", "total_population")
            /\ view.out.actualIncome
                 = rawScalar(radiusData, "3_mile", "median_household_income")
            /\ view.out.actualHomeValue
                 = rawScalar(radiusData, "3_mile", "median_home_value")
            /\ view.out.actualAge = expectedAge(rawScalar(radiusData, "3_mile", "median_age")))

C10_Witness ==
    /\ view.component = "PopulationAnalysis"
    /\ Has(radiusData, "1_mile")
    /\ Has(radiusData["1_mile"], "tract_count")
    /\ radiusData["1_mile"].tract_count = 1
    /\ rawScalar(radiusData, "1_mile", "median_age") = 150
    /\ view.out["1_mile"].actualAge = Frac(38, 1)
    /\ view.out["1_mile"].actualIncome = 2400000
    /\ view.out["1_mile"].population = 12000

\* the age after the tract-count correction of each component
correctedAge(c, rd, radius) ==
    LET age == rawScalar(rd, radius, "median_age")
        n == rawTracts(rd, radius)
    IN CASE c = "PopulationAnalysis" ->
              IF n > 1 THEN Frac(age, n) ELSE Frac(age, 1)
         [] c = "PopulationAnalysisDetail" ->
              IF n > 1 /\ age > 100 THEN Frac(age, n) ELSE Frac(age, 1)
         [] c = "MarketMetricsDashboard" ->
              IF n > 1 /\ age > 100 THEN Frac((2 * age + n) \div (2 * n), 1)
              ELSE Frac(age, 1)

\* the age a component displays for a radius
displayedAge(radius) ==
    IF view.component = "MarketMetricsDashboard" THEN view.out.actualAge
    ELSE view.out[radius].actualAge

\* the radii a component displays an age for
ageRadii ==
    IF view.component = "MarketMetricsDashboard" THEN {"3_mile"}
    ELSE IF view.component \in {"PopulationAnalysis", "PopulationAnalysisDetail"}
    THEN RadiusKeys
    ELSE {}

\* C11: in both PopulationAnalysis and in MarketMetricsDashboard an age that
\* is below 0 or above 100 after the tract-count correction is displayed as
\* 38, so the displayed age always lies in [0, 100].
C11_AgeFallback ==
    \A radius \in ageRadii :
        LET corrected == correctedAge(view.component, radiusData, radius)
            shown == displayedAge(radius)
        IN /\ (corrected.num < 0 \/ corrected.num > 100 * corrected.den)
                => shown = Frac(38, 1)
           /\ 0 <= shown.num
           /\ shown.num <= 100 * shown.den

C11_Witness ==
    /\ view.component = "PopulationAnalysis"
    /\ rawScalar(radiusData, "3_mile", "median_age") = 240
    /\ rawTracts(radiusData, "3_mile") = 2
    /\ view.out["3_mile"].actualAge = Frac(38, 1)

\* the de-aggregation rule: raw / tract_count when tract_count > 1, raw
\* otherwise, shown as a whole number
deaggregated(raw, n) == IF n > 1 THEN (2 * raw + n) \div (2 * n) ELSE raw

\* the payload keeps its metrics on the section itself
flatLayout(rd, radius) ==
    /\ Has(rd, radius)
    /\ Has(rd[radius], "current")
    /\ ~Has(rd[radius].current, "data")

\* C12: every component that displays a median income or a median home value
\* shows the raw value divided by tract_count when tract_count > 1 and the
\* raw value otherwise, so that RadiusCards, both PopulationAnalysis,
\* MarketMetricsDashboard and HomeValueGrowthChart agree.
C12_SameDeaggregation ==
    LET income(radius) ==
            deaggregated(rawScalar(radiusData, radius, "median_household_income"),
                         rawTracts(radiusData, radius))
        homeValue(radius) ==
            deaggregated(rawScalar(radiusData, radius, "median_home_value"),
                         rawTracts(radiusData, radius))
    IN /\ view.component = "RadiusCards" =>
            \A radius \in RadiusKeys : view.out[radius].medianIncome = income(radius)
       /\ view.component \in {"PopulationAnalysis", "PopulationAnalysisDetail"} =>
            \A radius \in RadiusKeys : view.out[radius].actualIncome = income(radius)
       /\ view.component = "MarketMetricsDashboard" =>
            /\ view.out.actualIncome = income("3_mile")
            /\ view.out.actualHomeValue = homeValue("3_mile")
       /\ view.component = "HomeValueGrowthChart" =>
            \A radius \in RadiusKeys :
                flatLayout(radiusData, radius)
                    => view.out.chartData[radius].current = homeValue(radius)

\* the record of the radius lacks the section, or the radius has no record
sectionAbsent(rd, radius, section) ==
    ~Has(rd, radius) \/ ~Has(rd[radius], section)

\* C13: for a radius key absent from radius_data and for a record without
\* its current or historical bag, RadiusCards, both PopulationAnalysis and
\* MarketMetricsDashboard compute 0 for every scalar read from that bag
\* (population, income, age, home value, labor force, employed) and render.
C13_MissingDataIsZero ==
    /\ view.component = "RadiusCards" =>
         \A radius \in RadiusKeys : sectionAbsent(radiusData, radius, "current") =>
            /\ view.out[radius].population = 0
            /\ view.out[radius].medianIncome = 0
    /\ view.component \in {"PopulationAnalysis", "PopulationAnalysisDetail"} =>
         \A radius \in RadiusKeys : sectionAbsent(radiusData, radius, "current") =>
            /\ view.out[radius].population = 0
            /\ view.out[radius].actualIncome = 0
            /\ view.out[radius].actualAge.num = 0
    /\ view.component = "MarketMetricsDashboard" =>
         /\ sectionAbsent(radiusData, "3_mile", "current") =>
               /\ view.out.population = 0
               /\ view.out.actualIncome = 0
               /\ view.out.actualHomeValue = 0
               /\ view.out.actualAge.num = 0
               /\ view.out.laborForce = 0
               /\ view.out.employed = 0
         /\ sectionAbsent(radiusData, "3_mile", "historical") =>
               view.out.historicalEmployed = 0

C13_Witness ==
    /\ view.component = "MarketMetricsDashboard"
    /\ ~Has(radiusData, "3_mile")
    /\ Has(radiusData, "5_mile")
    /\ view.out.population = 0
    /\ view.out.employed = 0

\* a record without its current bag is rendered by PopulationAnalysis
C13_WitnessNoCurrent ==
    /\ view.component = "PopulationAnalysis"
    /\ Has(radiusData, "1_mile")
    /\ ~Has(radiusData["1_mile"], "current")
    /\ view.out["1_mile"].population = 0

----------------------------------------------------------------------------
(* Properties of the derived figures *)

\* C14: every growth percentage (the education growth of
\* EducationDistribution, the growth of each radius and the headline growth
\* of HomeValueGrowthChart) is 0.0, never NaN or an infinity, whenever the
\* historical value it divides by is 0.
C14_GrowthGuarded ==
    /\ view.component = "EducationDistribution" =>
         (view.out.historicalTotal = 0 => view.out.growthPercent = Num(0))
    /\ view.component = "HomeValueGrowthChart" =>
         /\ \A radius \in RadiusKeys :
               view.out.chartData[radius].historical = 0
                   => view.out.chartData[radius].growthPercent = Num(0)
         /\ view.out.chartData["5_mile"].historical = 0
               => view.out.homeValueGrowth = Num(0)

\* C15: the affordability ratio of MarketMetricsDashboard is the home value
\* divided by the income and 0 when the income is 0; the status is
\* 'Affordable' for a ratio <= 3, 'Moderately Unaffordable' for a ratio > 3
\* and <= 5, 'Severely Unaffordable' above 5; 600000 / 120000 is shown as 5.0
\* and is 'Moderately Unaffordable'.
C15_Affordability ==
    view.component = "MarketMetricsDashboard" =>
        LET income == view.out.actualIncome
            homeValue == view.out.actualHomeValue
            ratio == view.out.affordabilityRatio
            status == view.out.affordabilityStatus
        IN /\ income = 0 => ratio.num = 0
           /\ income > 0 => ratio = Frac(homeValue, income)
           /\ status = "Affordable" <=> ratio.num <= 3 * ratio.den
           /\ status = "Moderately Unaffordable"
                <=> (ratio.num > 3 * ratio.den /\ ratio.num <= 5 * ratio.den)
           /\ status = "Severely Unaffordable" <=> ratio.num > 5 * ratio.den
           /\ (homeValue = 600000 /\ income = 120000) =>
                /\ toFixed1(ratio.num, ratio.den) = Num(50)
                /\ status = "Moderately Unaffordable"

C15_Witness ==
    /\ view.component = "MarketMetricsDashboard"
    /\ view.out.actualHomeValue = 600000
    /\ view.out.actualIncome = 120000
    /\ view.out.affordabilityStatus = "Moderately Unaffordable"

\* a ratio just above 5 is rendered
C15_WitnessSevere ==
    /\ view.component = "MarketMetricsDashboard"
    /\ view.out.actualHomeValue = 600000
    /\ view.out.actualIncome = 119999
    /\ view.out.affordabilityStatus = "Severely Unaffordable"

\* the sixteen income bands of a bag
IncomeBands ==
    {"income_less_10k", "income_10k_15k", "income_15k_20k", "income_20k_25k",
     "income_25k_30k", "income_30k_35k", "income_35k_40k", "income_40k_45k",
     "income_45k_50k", "income_50k_60k", "income_60k_75k", "income_75k_100k",
     "income_100k_125k", "income_125k_150k", "income_150k_200k",
     "income_200k_plus"}

\* the households of the bands S of the current bag of a radius
RECURSIVE households(_, _, _)
households(rd, radius, S) ==
    IF S = {} THEN 0
    ELSE LET k == CHOOSE b \in S : TRUE
         IN rawScalar(rd, radius, k) + households(rd, radius, S \ {k})

\* C16: calculateIncomeDistribution returns four percentages that sum to 100
\* within 0.2 when the households of the bands are not 0 in total, and
\* exactly 25, 25, 25, 25 when they are 0 or the radius has no record.
C16_IncomeDistribution ==
    view.component = "IncomeDistributionChart" =>
        \A radius \in RadiusKeys :
            LET d == view.out[radius].distribution
                total == households(radiusData, radius, IncomeBands)
            IN IF Has(radiusData, radius) /\ total # 0
               THEN /\ \A n \in 1..4 : d[n].kind = "num"
                    /\ d[1].tenths + d[2].tenths + d[3].tenths + d[4].tenths
                         \in 998..1002
               ELSE d = <<Num(250), Num(250), Num(250), Num(250)>>

\* shares that do not sum to 100 exactly are rendered
C16_Witness ==
    /\ view.component = "IncomeDistributionChart"
    /\ LET d == view.out["3_mile"].distribution
       IN /\ households(radiusData, "3_mile", IncomeBands) = 3
          /\ d[1] = Num(333) /\ d[2] = Num(333) /\ d[3] = Num(333) /\ d[4] = Num(0)

\* a record whose bands are all 0 is rendered with the default shares
C16_WitnessDefault ==
    /\ view.component = "IncomeDistributionChart"
    /\ Has(radiusData, "3_mile")
    /\ households(radiusData, "3_mile", IncomeBands) = 0
    /\ view.out["3_mile"].distribution[1] = Num(250)

\* the year the 5-mile record names for a section, the default if none
rawYear(rd, section, default) ==
    IF Has(rd, "5_mile") /\ Has(rd["5_mile"], section)
       /\ Has(rd["5_mile"][section], "year")
    THEN rd["5_mile"][section].year
    ELSE default

\* C17: when the historical year is before the current year, the
\* interpolated total series of EducationDistribution has one point for each
\* year from the historical to the current one inclusive, its first point is
\* the historical total, its last point the current total, and it does not
\* decrease when the current total is at least the historical total.
C17_Interpolation ==
    view.component = "EducationDistribution" =>
        LET first == rawYear(radiusData, "historical", 2017)
            last == rawYear(radiusData, "current", 2022)
            series == view.out.totalData
        IN first < last =>
            /\ Len(series) = last - first + 1
            /\ Len(view.out.years) = Len(series)
            /\ \A n \in 1..Len(series) : view.out.years[n] = first + n - 1
            /\ series[1] = Whole(view.out.historicalTotal)
            /\ series[Len(series)] = Whole(view.out.currentTotal)
            /\ view.out.currentTotal >= view.out.historicalTotal =>
                 \A n \in 1..(Len(series) - 1) :
                    series[n].value <= series[n + 1].value

\* a growing total is interpolated over the default years 2017..2022
C17_Witness ==
    /\ view.component = "EducationDistribution"
    /\ view.out.years = <<2017, 2018, 2019, 2020, 2021, 2022>>
    /\ view.out.historicalTotal = 3900
    /\ view.out.currentTotal = 4701
    /\ view.out.totalData[2] = Whole(4060)

\* C18: when the current year equals the historical year no interpolated
\* value of EducationDistribution is NaN.
C18_EqualYearsNoNaN ==
    (/\ view.component = "EducationDistribution"
     /\ view.out.currentYear = view.out.historicalYear) =>
        /\ \A n \in 1..Len(view.out.totalData) : view.out.totalData[n] # NaN
        /\ \A n \in 1..Len(view.out.bachelorsData) : view.out.bachelorsData[n] # NaN
        /\ \A n \in 1..Len(view.out.mastersData) : view.out.mastersData[n] # NaN
        /\ \A n \in 1..Len(view.out.advancedData) : view.out.advancedData[n] # NaN

\* C19: the jobs added of MarketMetricsDashboard are the employed of the
\* current bag minus the employed of the historical bag of the 3-mile
\* record; the figure shown is the difference when it is positive and 0 when
\* it is zero or negative.
C19_JobsAdded ==
    view.component = "MarketMetricsDashboard" =>
        LET difference == rawMetric(radiusData, "3_mile", "current", "employed")
                          - rawMetric(radiusData, "3_mile", "historical", "employed")
        IN /\ view.out.jobsAdded = difference
           /\ difference > 0 => view.out.jobsAddedShown = difference
           /\ difference <= 0 => view.out.jobsAddedShown = 0

\* fewer employed than before: the figure shown is 0
C19_Witness ==
    /\ view.component = "MarketMetricsDashboard"
    /\ view.out.employed = 8500
    /\ view.out.historicalEmployed = 9000
    /\ view.out.jobsAdded = -500
    /\ view.out.jobsAddedShown = 0

\* more employed than before: the figure shown is the difference
C19_WitnessPositive ==
    /\ view.component = "MarketMetricsDashboard"
    /\ view.out.jobsAdded = 500
    /\ view.out.jobsAddedShown = 500

----------------------------------------------------------------------------
(* The detail view without coordinates *)

\* C20: for a response with demographics and with null coordinates, entering
\* the detail view from the card does not fail: DemographicsDetail renders, its title being
\* the decoded address of the URL.
C20_DetailRendersWithoutCoordinates ==
    (/\ route = "/analysis/:address"
     /\ entry = "card"
     /\ ~DetailHasNoData
     /\ ~IsSome(locationData[1].coordinates)) =>
        /\ ~DetailRenderThrows
        /\ "Header" \in DemographicsDetailView

----------------------------------------------------------------------------
(* Properties of the request cycle *)

\* C21: a POST request is issued by a submit with a non-blank address, one
\* request for each such submit, and by nothing else: a request that failed
\* or returned an error field is not issued again.
C21_OnePostPerSubmit ==
    [][IF route = "/" /\ ~loading /\ loading'
       THEN ~IsBlank(address) /\ posts' = posts + 1
       ELSE posts' = posts]_vars

\* two searches were submitted, and the second one has failed
C21_Witness ==
    /\ posts = 2
    /\ owner = 2
    /\ inflight = {}
    /\ error = Some("Failed to fetch demographics")

\* C22: when a request issued by handleSubmit resolves or rejects, loading
\* is false afterwards, however the request ended; loading is never true
\* with no request pending.
C22_LoadingLoweredOnCompletion ==
    [][/\ (inflight' # inflight /\ inflight' \subseteq inflight) => ~loading'
       /\ loading' => inflight' # {}]_vars

\* a request has ended with an error field and loading is false
C22_Witness ==
    /\ seq = 1
    /\ inflight = {}
    /\ ~loading
    /\ error = Some("No address found")

\* a request has ended with a thrown failure and loading is false
C22_WitnessFailure ==
    /\ seq = 1
    /\ inflight = {}
    /\ ~loading
    /\ error = Some("Address not found")

\* C23: whenever loading is true, error and result are both null: a submit
\* with a non-blank address discards the previous result and the previous
\* error before the request is issued.
C23_NothingShownWhileLoading ==
    loading => (error = None /\ result = None)

\* the second search is pending, the first one having completed
C23_Witness ==
    /\ loading
    /\ seq = 2
    /\ inflight = {[id |-> 2, address |-> <<"a">>]}
    /\ error = None
    /\ result = None

\* C24: error and result of SearchPage are never both non-null, so the error
\* banner and the result card are never displayed together.
C24_ErrorAndResultExclusive ==
    ~(IsSome(error) /\ IsSome(result))

\* C25: when 'View Full Analysis' is activated, the address encoded in the
\* detail URL is the address submitted in the request whose response is
\* passed as navigation state, even when the input was edited after that
\* response arrived.
C25_UrlNamesSubmittedAddress ==
    [][(route = "/" /\ route' = "/analysis/:address" /\ entry' = "card") =>
          /\ location'.state = Some([data |-> result])
          /\ location'.pathname
               = <<"/analysis/">> \o encodeURIComponent(result[1].address)]_vars

----------------------------------------------------------------------------
(* Properties of the income buckets and of the stacked series *)

\* the sub-bands of each bucket
Under50k ==
    {"income_less_10k", "income_10k_15k", "income_15k_20k", "income_20k_25k",
     "income_25k_30k", "income_30k_35k", "income_35k_40k", "income_40k_45k",
     "income_45k_50k"}
From50kTo100k == {"income_50k_60k", "income_60k_75k", "income_75k_100k"}
From100kTo150k == {"income_100k_125k", "income_125k_150k"}
From150k == {"income_150k_200k", "income_200k_plus"}

\* C26: calculateIncomeDistribution adds each of the 16 sub-band counts to
\* exactly one of the four buckets (9 below 50k, 3 from 50k to 100k, 2 from
\* 100k to 150k, 2 from 150k up), an absent sub-band counting as 0, so the
\* buckets together hold the sum of the 16 counts.
C26_BandsPartitioned ==
    view.component = "IncomeDistributionChart" =>
        \A radius \in RadiusKeys :
            LET c == view.out[radius].categories
            IN /\ c.under50k = households(radiusData, radius, Under50k)
               /\ c.b50k_100k = households(radiusData, radius, From50kTo100k)
               /\ c.b100k_150k = households(radiusData, radius, From100kTo150k)
               /\ c.b150k_plus = households(radiusData, radius, From150k)
               /\ c.under50k + c.b50k_100k + c.b100k_150k + c.b150k_plus
                    = households(radiusData, radius, IncomeBands)

\* a bag carrying the band from 45k to 50k only is rendered
C26_Witness ==
    /\ view.component = "IncomeDistributionChart"
    /\ rawScalar(radiusData, "1_mile", "income_45k_50k") = 7
    /\ households(radiusData, "1_mile", IncomeBands) = 7
    /\ view.out["1_mile"].categories.under50k = 7
    /\ view.out["1_mile"].categories.b50k_100k = 0

\* the years charted when the span is not zero
chartedYears ==
    IF view.out.currentYear > view.out.historicalYear
    THEN 1..Len(view.out.totalData)
    ELSE {}

\* the three stacked values of a charted year, added up
stackedSum(n) ==
    view.out.bachelorsData[n].value + view.out.mastersData[n].value
    + view.out.advancedData[n].value

----------------------------------------------------------------------------
(* Properties of the card's animation *)

\* the values displayed when the animation has ended
finalValues(targets) ==
    [population |-> targets.population,
     growthRate |-> toFixed1(targets.growth, 100).tenths,
     collegeGrad |-> targets.college \div 10]

\* C28: the animation of DemographicsCard ends: after exactly 60 ticks the
\* interval is cleared and ticks no more; the card then displays the 5-mile
\* population, the population growth rounded to one decimal and the floor of
\* the college percentage; when the card unmounts or its targets change, the
\* running interval is cleared and none of its ticks updates state afterwards.
C28_AnimationTerminates ==
    /\ \A timer \in card.timers :
          /\ timer.currentStep < 60
          /\ card.mounted
          /\ timer.id = card.effect
    /\ card.ticks <= 60
    /\ card.mounted => (card.timers = {} <=> card.ticks = 60)
    /\ (card.mounted /\ card.timers = {}) =>
          card.animatedValues = finalValues(card.targets)
    /\ ~card.stale

\* the animation restarted by a change of targets has ended
C28_Witness ==
    /\ card.mounted
    /\ card.effect = 2
    /\ card.ticks = 60
    /\ card.timers = {}
    /\ card.animatedValues = [population |-> 12345, growthRate |-> 53, collegeGrad |-> 45]

----------------------------------------------------------------------------
(* Affordability without income *)

\* C29: whenever the income of the 3-mile record is 0, absent, or rounds to
\* 0 after the division by tract_count, the affordability ratio of
\* MarketMetricsDashboard is 0 and the status is 'Affordable', whatever the
\* home value.
C29_NoIncomeIsAffordable ==
    view.component = "MarketMetricsDashboard" =>
        LET income ==
                deaggregated(rawScalar(radiusData, "3_mile", "median_household_income"),
                             rawTracts(radiusData, "3_mile"))
        IN income = 0 =>
            /\ view.out.affordabilityRatio.num = 0
            /\ view.out.affordabilityStatus = "Affordable"

\* an income of 1 over three tracts rounds to 0, the home value being 200000
C29_Witness ==
    /\ view.component = "MarketMetricsDashboard"
    /\ rawScalar(radiusData, "3_mile", "median_household_income") = 1
    /\ rawTracts(radiusData, "3_mile") = 3
    /\ view.out.actualIncome = 0
    /\ view.out.actualHomeValue = 200000
    /\ view.out.affordabilityStatus = "Affordable"

----------------------------------------------------------------------------
Next ==
    \/ \E a \in AddressTexts : Type(a)
    \/ handleSubmit
    \/ \E req \in inflight : \E data \in ResponsesFor(req.address) : Resolve(req, data)
    \/ \E req \in inflight : \E f \in Failures : Reject(req, f)
    \/ handleViewDetails
    \/ \E a \in ForeignAddresses : \E st \in ForeignStates : EnterDetail(a, st)
    \/ BackToSearch

Spec == Init /\ [][Next]_vars

====
